---- MODULE Spec2Model ----
(***************************************************************************)
(* Model of src/class/main.py: a Streamlit chat page (ChatInterface) in    *)
(* front of a Gemini client (ChatBot), with the transcript persisted in    *)
(* chat_history.json.                                                      *)
(*                                                                         *)
(* Streamlit executes the script from the top on every interaction, so     *)
(* every run builds a new ChatBot, loads the file and then renders the     *)
(* page with at most one widget triggered.  Texts are sequences of         *)
(* one-character strings, so that the JSON file and the prompt are         *)
(* modelled character by character.                                        *)
(***************************************************************************)
EXTENDS Integers, Sequences, FiniteSets, TLC

VARIABLES
  apiKey,        \* os.getenv("GEMINI_API_KEY") of the running process
  file,          \* chat_history.json: [exists, data]
  history,       \* st.session_state.history
  chat_history,  \* ChatBot.chat_history of the current run
  pc,            \* position of the script run
  button,        \* st.button("Clear Chat History") of the current run
  user_input,    \* st.chat_input(...) of the current run, <<>> when none
  response,      \* value returned by ChatBot.get_response
  prompt,        \* last argument of model.generate_content
  outcome,       \* how the last remote call ended: "none", "ok", "failed"
  raised,        \* exception that ended the current script run, or "none"
  uiError,       \* st.error(...) is shown
  cleared,       \* history variable: the run was started by st.rerun() of the clear branch
  saved          \* history variable: argument of the last save_history, <<>> after a clear

vars == <<apiKey, file, history, chat_history, pc, button, user_input,
          response, prompt, outcome, raised, uiError, cleared, saved>>

----------------------------------------------------------------------------
(* Bounds and inputs *)

MaxExchanges == 2

KeyUnset == "<unset>"
ApiKeys == {KeyUnset, "", "k1"}

UserInputs == { <<"h", "i">>, <<"\"", "\\">>, <<"a", "\n", "b">> }
BotTexts == { <<"o", "k">>, <<"\\", "n", "\"">> }
ErrorMsgs == { <<"4", "2", "9", "\"">> }

----------------------------------------------------------------------------
(* Texts *)

RECURSIVE Cat(_)
Cat(ss) == IF ss = <<>> THEN <<>> ELSE Head(ss) \o Cat(Tail(ss))

RECURSIVE Join(_, _)
Join(sep, ss) ==
  IF ss = <<>> THEN <<>>
  ELSE IF Len(ss) = 1 THEN ss[1]
  ELSE ss[1] \o sep \o Join(sep, Tail(ss))

StartsWith(s, p) == Len(s) >= Len(p) /\ SubSeq(s, 1, Len(p)) = p

IsPrefix(p, s) == Len(p) <= Len(s) /\ SubSeq(s, 1, Len(p)) = p

RoleUser == <<"u", "s", "e", "r">>
RoleBot == <<"b", "o", "t">>
KeyRole == <<"r", "o", "l", "e">>
KeyContent == <<"c", "o", "n", "t", "e", "n", "t">>
ErrorPrefix == <<"E", "r", "r", "o", "r", ":", " ">>

Turn(r, c) == [role |-> r, content |-> c]

----------------------------------------------------------------------------
(* json.dump(st.session_state.history, f) with the default separators and  *)
(* ensure_ascii                                                            *)

\* Variant that leaves the backslash unescaped
EscapeCharNoBackslash(c) ==
  CASE c = "\"" -> <<"\\", "\"">>
    [] c = "\n" -> <<"\\", "n">>
    [] c = "\t" -> <<"\\", "t">>
    [] OTHER -> <<c>>

EscapeChar(c) ==
  CASE c = "\"" -> <<"\\", "\"">>
    [] c = "\\" -> <<"\\", "\\">>
    [] c = "\n" -> <<"\\", "n">>
    [] c = "\t" -> <<"\\", "t">>
    [] OTHER -> <<c>>

DumpStr(s) == <<"\"">> \o Cat([i \in 1..Len(s) |-> EscapeChar(s[i])]) \o <<"\"">>

DumpTurn(t) ==
  <<"{">> \o DumpStr(KeyRole) \o <<":", " ">> \o DumpStr(t.role) \o <<",", " ">>
          \o DumpStr(KeyContent) \o <<":", " ">> \o DumpStr(t.content) \o <<"}">>

JsonDump(h) ==
  <<"[">> \o Join(<<",", " ">>, [i \in 1..Len(h) |-> DumpTurn(h[i])]) \o <<"]">>

----------------------------------------------------------------------------
(* json.load(f).  The decoder is modelled for the documents save_history   *)
(* writes and for their truncations: an array of objects with the two      *)
(* string members role and content.                                        *)

Whitespace == {" ", "\n", "\t", "\r"}

Fail == [ok |-> FALSE, val |-> <<>>, next |-> 0]

At(s, i, c) == i <= Len(s) /\ s[i] = c

RECURSIVE SkipWs(_, _)
SkipWs(s, i) == IF i <= Len(s) /\ s[i] \in Whitespace THEN SkipWs(s, i + 1) ELSE i

Unescape(c) ==
  CASE c = "\"" -> "\""
    [] c = "\\" -> "\\"
    [] c = "/" -> "/"
    [] c = "n" -> "\n"
    [] c = "t" -> "\t"
    [] c = "r" -> "\r"

Escapable == {"\"", "\\", "/", "n", "t", "r"}

\* scanstring, strict: i is the position after the opening quote
RECURSIVE ScanString(_, _, _)
ScanString(s, i, acc) ==
  IF i > Len(s) THEN Fail
  ELSE IF s[i] = "\"" THEN [ok |-> TRUE, val |-> acc, next |-> i + 1]
  ELSE IF s[i] = "\\" THEN
    IF i + 1 <= Len(s) /\ s[i + 1] \in Escapable
    THEN ScanString(s, i + 2, Append(acc, Unescape(s[i + 1])))
    ELSE Fail
  ELSE IF s[i] \in {"\n", "\t", "\r"} THEN Fail
  ELSE ScanString(s, i + 1, Append(acc, s[i]))

ParseString(s, i) == IF At(s, i, "\"") THEN ScanString(s, i + 1, <<>>) ELSE Fail

\* "key": "value", the value once the colon is passed
MemberValue(k, v) ==
  IF v.ok THEN [ok |-> TRUE, val |-> <<k.val, v.val>>, next |-> v.next] ELSE Fail

\* c is the position where the colon is expected
MemberColon(s, k, c) ==
  IF At(s, c, ":") THEN MemberValue(k, ParseString(s, SkipWs(s, c + 1))) ELSE Fail

MemberKey(s, k) == IF k.ok THEN MemberColon(s, k, SkipWs(s, k.next)) ELSE Fail

ParseMember(s, i) == MemberKey(s, ParseString(s, i))

\* The dict of the two members, e the position of "}"
MakeTurn(m1, m2, e) ==
  IF m1.val[1] = KeyRole /\ m2.val[1] = KeyContent
  THEN [ok |-> TRUE, val |-> Turn(m1.val[2], m2.val[2]), next |-> e + 1]
  ELSE IF m1.val[1] = KeyContent /\ m2.val[1] = KeyRole
  THEN [ok |-> TRUE, val |-> Turn(m2.val[2], m1.val[2]), next |-> e + 1]
  ELSE Fail

TurnClose(s, m1, m2, e) == IF At(s, e, "}") THEN MakeTurn(m1, m2, e) ELSE Fail

TurnSecond(s, m1, m2) ==
  IF m2.ok THEN TurnClose(s, m1, m2, SkipWs(s, m2.next)) ELSE Fail

\* c is the position where the comma between the members is expected
TurnComma(s, m1, c) ==
  IF At(s, c, ",") THEN TurnSecond(s, m1, ParseMember(s, SkipWs(s, c + 1))) ELSE Fail

TurnFirst(s, m1) == IF m1.ok THEN TurnComma(s, m1, SkipWs(s, m1.next)) ELSE Fail

\* JSONObject: i is the position of "{"
ParseTurn(s, i) ==
  IF At(s, i, "{") THEN TurnFirst(s, ParseMember(s, SkipWs(s, i + 1))) ELSE Fail

RECURSIVE ParseElements(_, _, _)

\* e is the position after the element t: "]" ends the array, "," continues it
ElementsNext(s, acc, t, e) ==
  IF At(s, e, "]") THEN [ok |-> TRUE, val |-> Append(acc, t.val), next |-> e + 1]
  ELSE IF At(s, e, ",") THEN ParseElements(s, e + 1, Append(acc, t.val))
  ELSE Fail

ElementsTurn(s, acc, t) ==
  IF t.ok THEN ElementsNext(s, acc, t, SkipWs(s, t.next)) ELSE Fail

\* JSONArray: the elements from position i on
ParseElements(s, i, acc) == ElementsTurn(s, acc, ParseTurn(s, SkipWs(s, i)))

\* b is the position after "[" and whitespace
ArrayBody(s, b) ==
  IF At(s, b, "]") THEN [ok |-> TRUE, val |-> <<>>, next |-> b + 1]
  ELSE ParseElements(s, b, <<>>)

ParseArray(s, i) == IF At(s, i, "[") THEN ArrayBody(s, SkipWs(s, i + 1)) ELSE Fail

\* After the value only whitespace may follow
LoadEnd(s, a) == IF a.ok /\ SkipWs(s, a.next) = Len(s) + 1 THEN a ELSE Fail

\* json.load: one value, then the end of the file
JsonLoad(s) == LoadEnd(s, ParseArray(s, SkipWs(s, 1)))

----------------------------------------------------------------------------
(* ChatBot *)

\* "\n".join([f"{msg['role']}: {msg['content']}" for msg in self.chat_history])
Conversation(h) ==
  Join(<<"\n">>, [i \in 1..Len(h) |-> h[i].role \o <<":", " ">> \o h[i].content])

Absent == [exists |-> FALSE, data |-> <<>>]

Init ==
  /\ apiKey \in ApiKeys
  /\ file = Absent
  /\ history = <<>>
  /\ chat_history = <<>>
  /\ pc = "idle"
  /\ button = FALSE
  /\ user_input = <<>>
  /\ response = <<>>
  /\ prompt = <<>>
  /\ outcome = "none"
  /\ raised = "none"
  /\ uiError = FALSE
  /\ cleared = FALSE
  /\ saved = <<>>

----------------------------------------------------------------------------
(* The process *)

\* The Streamlit server is started with GEMINI_API_KEY = k (or without it):
\* session state starts empty, the file on disk is what the last process left.
Restart(k) ==
  /\ pc = "idle"
  /\ pc' = "idle"
  /\ apiKey' = k
  /\ history' = <<>>
  /\ chat_history' = <<>>
  /\ button' = FALSE
  /\ user_input' = <<>>
  /\ response' = <<>>
  /\ prompt' = <<>>
  /\ outcome' = "none"
  /\ raised' = "none"
  /\ uiError' = FALSE
  /\ cleared' = FALSE
  /\ UNCHANGED <<file, saved>>

\* API_KEY is None
KeyIsNone(k) == k = KeyUnset

\* not API_KEY
KeyMissing(k) == k \in {KeyUnset, ""}

\* A script run is triggered by a page load (b = FALSE, u = <<>>), by the
\* clear button (b = TRUE) or by a submitted message (u # <<>>); st.rerun()
\* triggers a run with no widget set.
Triggers(b, u) ==
  /\ pc \in {"idle", "rerun"}
  /\ ~(b /\ u # <<>>)
  /\ pc = "rerun" => (~b /\ u = <<>>)

\* main() without a usable key: st.error and return
MainNoKey(b, u) ==
  /\ Triggers(b, u)
  /\ KeyMissing(apiKey)
  /\ uiError' = TRUE
  /\ pc' = "idle"
  /\ UNCHANGED <<apiKey, file, history, chat_history, button, user_input,
                 response, prompt, outcome, raised, cleared, saved>>

\* main() with a key: ChatBot(API_KEY), then ChatInterface.__init__ starts
MainStart(b, u) ==
  /\ Triggers(b, u)
  /\ ~KeyMissing(apiKey)
  /\ chat_history' = <<>>
  /\ button' = b
  /\ user_input' = u
  /\ uiError' = FALSE
  /\ raised' = "none"
  /\ pc' = "load_history"
  /\ UNCHANGED <<apiKey, file, history, response, prompt, outcome, cleared, saved>>

\* Variant that ignores the content of the file
LoadWithoutFile ==
  /\ pc = "load_history"
  /\ history' = <<>>
  /\ pc' = "setup_ui"
  /\ UNCHANGED <<apiKey, file, chat_history, button, user_input, response,
                 prompt, outcome, raised, uiError, cleared, saved>>

\* Variant without the line that copies the loaded history to the chatbot
LoadWithoutSync ==
  /\ pc = "load_history"
  /\ IF file.exists
     THEN LET r == JsonLoad(file.data) IN
          IF r.ok
          THEN /\ history' = r.val
               /\ pc' = "setup_ui"
               /\ UNCHANGED raised
          ELSE /\ raised' = "JSONDecodeError"
               /\ pc' = "idle"
               /\ UNCHANGED history
     ELSE /\ history' = <<>>
          /\ pc' = "setup_ui"
          /\ UNCHANGED raised
  /\ UNCHANGED <<apiKey, file, chat_history, button, user_input, response,
                 prompt, outcome, uiError, cleared, saved>>

\* ChatInterface.load_history
load_history ==
  /\ pc = "load_history"
  /\ IF file.exists
     THEN LET r == JsonLoad(file.data) IN
          IF r.ok
          THEN /\ history' = r.val
               /\ chat_history' = r.val
               /\ pc' = "setup_ui"
               /\ UNCHANGED raised
          ELSE /\ raised' = "JSONDecodeError"
               /\ pc' = "idle"
               /\ UNCHANGED <<history, chat_history>>
     ELSE /\ history' = <<>>
          /\ pc' = "setup_ui"
          /\ UNCHANGED <<chat_history, raised>>
  /\ UNCHANGED <<apiKey, file, button, user_input, response, prompt, outcome,
                 uiError, cleared, saved>>

\* Variant that empties the lists and leaves the file on disk
ClearKeepsFile ==
  /\ pc = "setup_ui"
  /\ button
  /\ history' = <<>>
  /\ chat_history' = <<>>
  /\ pc' = "rerun"
  /\ button' = FALSE
  /\ cleared' = TRUE
  /\ UNCHANGED <<apiKey, file, user_input, response, prompt, outcome, raised,
                 uiError, saved>>

\* setup_ui, the sidebar: if st.button("Clear Chat History")
ClearChatHistory ==
  /\ pc = "setup_ui"
  /\ button
  /\ history' = <<>>
  /\ chat_history' = <<>>
  /\ file' = Absent
  /\ pc' = "rerun"
  /\ button' = FALSE
  /\ cleared' = TRUE
  /\ saved' = <<>>
  /\ UNCHANGED <<apiKey, user_input, response, prompt, outcome, raised, uiError>>

\* setup_ui with no widget triggered: the page is drawn and the run ends
Render ==
  /\ pc = "setup_ui"
  /\ ~button
  /\ user_input = <<>>
  /\ pc' = "idle"
  /\ cleared' = FALSE
  /\ UNCHANGED <<apiKey, file, history, chat_history, button, user_input,
                 response, prompt, outcome, raised, uiError, saved>>

\* setup_ui, if user_input: the user message is appended
AppendUser ==
  /\ pc = "setup_ui"
  /\ ~button
  /\ user_input # <<>>
  /\ Len(history) < 2 * MaxExchanges
  /\ history' = Append(history, Turn(RoleUser, user_input))
  /\ pc' = "get_response"
  /\ cleared' = FALSE
  /\ UNCHANGED <<apiKey, file, chat_history, button, user_input, response,
                 prompt, outcome, raised, uiError, saved>>

\* Variant that returns str(e) alone
ErrorStringBare(m) == m

\* f"Error: {str(e)}"
ErrorString(m) == ErrorPrefix \o m

\* What the remote call does: returns a response with text, raises, or
\* returns a response whose .text raises.
RemoteOutcomes ==
  [kind : {"ok"}, text : BotTexts] \cup [kind : {"throws", "notext"}, text : ErrorMsgs]

\* ChatBot.get_response(user_input)
get_response(o) ==
  /\ pc = "get_response"
  /\ LET h1 == Append(chat_history, Turn(RoleUser, user_input)) IN
     /\ prompt' = Conversation(h1)
     /\ IF o.kind = "ok"
        THEN /\ chat_history' = Append(h1, Turn(RoleBot, o.text))
             /\ response' = o.text
             /\ outcome' = "ok"
        ELSE /\ chat_history' = h1
             /\ response' = ErrorString(o.text)
             /\ outcome' = "failed"
  /\ pc' = "append_response"
  /\ UNCHANGED <<apiKey, file, history, button, user_input, raised, uiError,
                 cleared, saved>>

\* Variant that stores the generated turn only when the call succeeded
AppendResponseOnSuccess ==
  /\ pc = "append_response"
  /\ history' = IF outcome = "ok" THEN Append(history, Turn(RoleBot, response))
                ELSE history
  /\ pc' = "save_history"
  /\ UNCHANGED <<apiKey, file, chat_history, button, user_input, response,
                 prompt, outcome, raised, uiError, cleared, saved>>

\* st.session_state.history.append({"role": "bot", "content": response})
AppendResponse ==
  /\ pc = "append_response"
  /\ history' = Append(history, Turn(RoleBot, response))
  /\ pc' = "save_history"
  /\ UNCHANGED <<apiKey, file, chat_history, button, user_input, response,
                 prompt, outcome, raised, uiError, cleared, saved>>

\* Variant that writes the chatbot's list instead of the session's
SaveChatbotHistory ==
  /\ pc = "save_history"
  /\ file' = [exists |-> TRUE, data |-> JsonDump(chat_history)]
  /\ saved' = chat_history
  /\ pc' = "idle"
  /\ UNCHANGED <<apiKey, history, chat_history, button, user_input, response,
                 prompt, outcome, raised, uiError, cleared>>

\* ChatInterface.save_history
save_history ==
  /\ pc = "save_history"
  /\ file' = [exists |-> TRUE, data |-> JsonDump(history)]
  /\ saved' = history
  /\ pc' = "idle"
  /\ UNCHANGED <<apiKey, history, chat_history, button, user_input, response,
                 prompt, outcome, raised, uiError, cleared>>

\* Lengths at which a save that dies after open(..., "w") leaves the file
CrashCuts(n) == {0, n \div 2, n - 1}

\* save_history interrupted: the file holds a proper prefix of the document
\* and the process is gone.
SaveCrash(n) ==
  /\ pc = "save_history"
  /\ n < Len(JsonDump(history))
  /\ file' = [exists |-> TRUE, data |-> SubSeq(JsonDump(history), 1, n)]
  /\ saved' = history
  /\ pc' = "idle"
  /\ history' = <<>>
  /\ chat_history' = <<>>
  /\ UNCHANGED <<apiKey, button, user_input, response, prompt, outcome, raised,
                 uiError, cleared>>

Next ==
  \/ \E k \in ApiKeys : Restart(k)
  \/ \E b \in BOOLEAN, u \in UserInputs \cup {<<>>} : MainNoKey(b, u)
  \/ \E b \in BOOLEAN, u \in UserInputs \cup {<<>>} : MainStart(b, u)
  \/ load_history
  \/ ClearChatHistory
  \/ Render
  \/ AppendUser
  \/ \E o \in RemoteOutcomes : get_response(o)
  \/ AppendResponse
  \/ save_history

NextCrash == Next \/ \E n \in CrashCuts(Len(JsonDump(history))) : SaveCrash(n)

Spec == Init /\ [][Next]_vars

SpecCrash == Init /\ [][NextCrash]_vars

----------------------------------------------------------------------------
(* Properties *)

\* The turns held by chat_history.json
PersistedIn(f) == IF f.exists THEN JsonLoad(f.data).val ELSE <<>>

Persisted == PersistedIn(file)

Alternates(h) ==
  \A i \in 1..Len(h) : h[i].role = (IF i % 2 = 1 THEN RoleUser ELSE RoleBot)

HasSpecialChar(h) ==
  \E i \in 1..Len(h) : \E j \in 1..Len(h[i].content) :
    h[i].content[j] \in {"\"", "\\", "\n"}

\* C1: when load_history has read a file written by save_history, the
\* in-memory history is exactly the sequence that was saved: same turns,
\* same order, same roles and contents.
C1_SaveLoadRoundTrip ==
  (pc = "setup_ui" /\ file.exists) => history = saved

C1_Witness ==
  /\ pc = "setup_ui"
  /\ file.exists
  /\ Len(history) = 4
  /\ HasSpecialChar(history)
  /\ history = saved

\* C2: the load that follows the clear action finds no file and leaves the
\* history and the chatbot's context empty.
C2_ClearThenLoadEmpty ==
  (pc = "setup_ui" /\ cleared) =>
    (history = <<>> /\ ~file.exists /\ chat_history = <<>>)

C2_Witness ==
  /\ pc = "setup_ui"
  /\ cleared
  /\ response # <<>>
  /\ ~file.exists
  /\ history = <<>>

\* C3: when the remote call fails, get_response returns a string that
\* starts with "Error: " and no exception leaves it.
C3_FailureReturnsErrorString ==
  (pc = "append_response" /\ outcome = "failed") =>
    (raised = "none" /\ StartsWith(response, ErrorPrefix))

C3_Witness ==
  /\ pc = "append_response"
  /\ outcome = "failed"
  /\ response = ErrorPrefix \o <<"4", "2", "9", "\"">>

\* C4: an exchange appends exactly the user turn and then the generated
\* turn to what was persisted, and the history and the file alternate
\* user, bot, user, bot, ... whether the remote call succeeded or failed.
C4_ExchangeKeepsAlternation ==
  /\ Alternates(history)
  /\ Alternates(Persisted)
  /\ Len(Persisted) % 2 = 0
  /\ pc = "save_history" =>
       history = Persisted \o <<Turn(RoleUser, user_input), Turn(RoleBot, response)>>

C4_Witness ==
  /\ pc = "save_history"
  /\ outcome = "failed"
  /\ Len(history) = 4
  /\ Alternates(history)

\* C5: every save_history leaves a file that is the JSON array of the
\* in-memory history: it decodes to exactly that sequence and holds
\* nothing else.
C5_SaveWritesHistory ==
  [][pc = "save_history" =>
       /\ file'.exists
       /\ JsonLoad(file'.data) =
            [ok |-> TRUE, val |-> history', next |-> Len(file'.data) + 1]
       /\ JsonDump(JsonLoad(file'.data).val) = file'.data]_vars

C5_Witness ==
  /\ pc = "idle"
  /\ file.exists
  /\ outcome = "failed"
  /\ Len(history) = 4
  /\ HasSpecialChar(history)
  /\ JsonLoad(file.data).ok
  /\ JsonLoad(file.data).val = history

\* C6: every step other than the clear action keeps the persisted turns as
\* a prefix of the persisted turns after it; the clear action removes all.
C6_AppendOnly ==
  [][IF pc = "setup_ui" /\ button
     THEN ~file'.exists /\ PersistedIn(file') = <<>>
     ELSE IsPrefix(Persisted, PersistedIn(file'))]_vars

C6_Witness ==
  /\ pc = "idle"
  /\ Len(Persisted) = 4
  /\ Persisted[1].content # Persisted[3].content

\* C7: a load that finds no file, or a file that cannot be decoded,
\* completes without raising and leaves the history empty.
C7_LoadFailsSoftly ==
  [][(pc = "load_history" /\ (~file.exists \/ ~JsonLoad(file.data).ok)) =>
       (raised' = "none" /\ pc' = "setup_ui" /\ history' = <<>>)]_vars

\* C8: with GEMINI_API_KEY absent or empty, a script run shows the error
\* and stops: no ChatBot, no load, no remote call, the file untouched.
C8_NoKeyNoProgress ==
  [][(pc = "idle" /\ apiKey \in {KeyUnset, ""}) =>
       \/ \E k \in ApiKeys : Restart(k)
       \/ /\ pc' = "idle"
          /\ uiError'
          /\ UNCHANGED <<file, history, chat_history, prompt, response, outcome>>]_vars

C8_Witness ==
  /\ pc = "idle"
  /\ apiKey = ""
  /\ uiError
  /\ file.exists

\* C9: the prompt sent to the remote model is the "<role>: <content>"
\* rendering, joined by newlines, of the whole in-memory history: the
\* persisted turns in file order followed by the new user message.
C9_PromptIsFullConversation ==
  pc = "append_response" =>
    /\ prompt = Conversation(history)
    /\ history = Persisted \o <<Turn(RoleUser, user_input)>>

C9_Witness ==
  /\ pc = "append_response"
  /\ Len(history) = 3
  /\ history[2].content = ErrorPrefix \o <<"4", "2", "9", "\"">>
  /\ prompt = Conversation(history)

\* C10: at the end of every exchange ChatBot.chat_history equals
\* st.session_state.history.
C10_HistoriesInSync ==
  pc = "save_history" => chat_history = history

====
